---- MODULE Spec2Model ----
(***************************************************************************)
(* Subscription lifecycle and access gate of the learn-lock-box portal.    *)
(* The state is the backend's tables (subscriptions, course_passwords),    *)
(* the payment-receipts bucket, the clock, and each browser session's      *)
(* position inside the multi-call handlers of CourseSubscription.tsx and   *)
(* AdminSubscriptionManagement.tsx.  Every backend call is one step; a     *)
(* call can fail (network / backend error) and a session can be closed     *)
(* between two calls.                                                      *)
(***************************************************************************)
EXTENDS Integers, Sequences, FiniteSets, TLC

\* ------------------------------------------------------------------ bounds
MaxNow == 33          \* the clock stops advancing after this day
MaxSubId == 2         \* subscription rows ever inserted
MaxPasswords == 2     \* course_passwords rows ever minted
MaxReceipts == 2      \* objects held by the payment-receipts bucket
MaxEnd == 100         \* a renewal does not push end_date past this day
MaxOps == 3           \* handler invocations (button presses) in one behaviour

\* -------------------------------------------------------- program constants
PasswordTTL == 7      \* expires_at DEFAULT now() + interval '7 days'

NULL == 0 - 1         \* SQL NULL in a timestamptz column
NoProof == <<>>       \* SQL NULL in payment_proof / no storage path

Users == {"u1", "u2"}
Courses == {"c1", "c2"}
Texts == {"A", "A "}  \* what can be typed into a password field

\* courses.duration_months
courses == [c \in Courses |-> [duration_months |-> IF c = "c1" THEN 1 ELSE 2]]

\* course_videos: every course has one playlist row
course_videos == {[course_id |-> c, video_id |-> 1] : c \in Courses}

\* ------------------------------------------------------------------ calendar
\* Instants are whole days counted from 1 January of a non-leap year.
MonthLen == <<31, 28, 31, 30, 31, 30, 31, 31, 30, 31, 30, 31>>

RECURSIVE DaysBefore(_)
\* days of the year that precede month m (0-based, 0..11)
DaysBefore(m) == IF m = 0 THEN 0 ELSE DaysBefore(m - 1) + MonthLen[m]

\* Date.getMonth(): 0-based month of instant t
getMonth(t) ==
    LET doy == t % 365
    IN  CHOOSE m \in 0..11 : DaysBefore(m) <= doy /\ doy < DaysBefore(m) + MonthLen[m + 1]

\* Date.getDate() - 1: 0-based day of the month of instant t
getDate0(t) == (t % 365) - DaysBefore(getMonth(t))

\* d.setMonth(d.getMonth() + n): the day of the month is kept and a day past the
\* end of the target month overflows into the following month
AddMonths(t, n) ==
    LET tm == getMonth(t) + n
    IN  ((t \div 365) + (tm \div 12)) * 365 + DaysBefore(tm % 12) + getDate0(t)

\* String.prototype.trim()
trim(s) == IF s = "A " THEN "A" ELSE s

\* ------------------------------------------------------------------- state
VARIABLES
    now,               \* the backend clock now() / the browsers' new Date()
    profiles,          \* table profiles: user -> [role]
    subscriptions,     \* table subscriptions: a set of rows
    nextSubId,         \* the next gen_random_uuid() of subscriptions.id
    course_passwords,  \* table course_passwords: a set of rows
    receipts,          \* object names in the payment-receipts bucket
    stamp,             \* the millisecond reading Date.now() gives next (it only grows)
    pc,                \* per session: the backend call its handler issues next
    loc,               \* per session: the locals of the handler in flight
    view,              \* per session: the `subscriptions` list last fetched
    toast,             \* the notification the last step showed ("none": nothing)
    uses,              \* history: password id -> subscriptions it activated
    stuck,             \* history: ids of rows whose approval failed at its last write
                       \* after the receipt object was removed
    ops,               \* history: handler invocations so far
    videos,            \* table videos: a set of rows
    video_files,       \* object names in the videos bucket
    nextVideoId,       \* the next gen_random_uuid() of videos.id
    course_active,     \* column is_active of table courses: course -> BOOLEAN
    player,            \* per session: the URL the VideoPlayer page plays
    viewer             \* per session: what the CourseViewer page shows

\* the catalogue and the content pages
content == <<videos, video_files, nextVideoId, course_active, player, viewer>>

vars == <<now, profiles, subscriptions, nextSubId, course_passwords, receipts, stamp,
          pc, loc, view, toast, uses, stuck, ops, content>>

NoSub == [id |-> 0, user_id |-> "", course_id |-> "", status |-> "",
          start_date |-> NULL, end_date |-> NULL, payment_proof |-> NoProof]
NoToast == "none"
NoLoc == [course |-> "", pwId |-> 0, path |-> NoProof, sub |-> NoSub, video |-> 0]

\* u1 is an admin and u2 is what handle_new_user makes of a sign-up, a student
RoleSetup ==
    [u \in Users |-> [role |-> IF u = "u1" THEN "admin" ELSE "student",
                      approved |-> u = "u1"]]

NoUrl == <<>>
NoPage == [open |-> FALSE, list |-> {}]

\* one uploaded file video, ready, listed in every course; every course active
ContentInit ==
    /\ nextVideoId = 2
    /\ videos = {[id |-> 1, status |-> "ready", video_type |-> "file",
                  file_path |-> <<"videos", 0>>, video_url |-> NoUrl]}
    /\ video_files = {<<"videos", 0>>}
    /\ course_active = [c \in Courses |-> TRUE]
    /\ player = [u \in Users |-> NoUrl]
    /\ viewer = [u \in Users |-> NoPage]

Init ==
    /\ now = 0
    /\ profiles = RoleSetup
    /\ subscriptions = {}
    /\ nextSubId = 1
    /\ course_passwords = {}
    /\ receipts = {}
    /\ stamp = 1
    /\ pc = [u \in Users |-> "idle"]
    /\ loc = [u \in Users |-> NoLoc]
    /\ view = [u \in Users |-> {}]
    /\ toast = NoToast
    /\ uses = [i \in 1..MaxPasswords |-> 0]
    /\ stuck = {}
    /\ ops = 0
    /\ ContentInit

\* ------------------------------------------------- backend: policies, schema
\* SQL comparisons are false when an operand is NULL
SqlLe(a, b) == a # NULL /\ b # NULL /\ a <= b
SqlLt(a, b) == a # NULL /\ b # NULL /\ a < b

is_admin(u) == profiles[u].role = "admin"

\* "Users can view their own subscriptions" / "Admins can manage all subscriptions"
SubSelectPolicy(u, s) == u = s.user_id \/ is_admin(u)
\* "Users can create their own subscriptions" / "Admins can manage all subscriptions"
SubInsertPolicy(u, s) == u = s.user_id \/ is_admin(u)
\* "Users can update their own subscriptions" / "Admins can manage all subscriptions"
SubUpdatePolicy(u, s) == u = s.user_id \/ is_admin(u)
\* only "Admins can manage all subscriptions" covers DELETE
SubDeletePolicy(u, s) == is_admin(u)
\* "Admins can manage course passwords" is the only policy of course_passwords
PasswordPolicy(u, p) == is_admin(u)
\* "Admins can manage all payment receipts" is the only policy that covers DELETE
ReceiptDeletePolicy(u, path) == is_admin(u)
\* "Users can upload their payment receipts": the first folder is the uploader
ReceiptInsertPolicy(u, path) == path[1] = u \/ is_admin(u)

\* the policy without its end_date bound
CourseVideosPolicyNoEnd(u, cv) ==
    \/ is_admin(u)
    \/ \E s \in subscriptions :
          /\ s.course_id = cv.course_id
          /\ s.user_id = u
          /\ s.status = "active"
          /\ SqlLe(s.start_date, now)

\* "Subscribed users can view course videos" / "Admins can manage course videos"
CourseVideosPolicy(u, cv) ==
    \/ is_admin(u)
    \/ \E s \in subscriptions :
          /\ s.course_id = cv.course_id
          /\ s.user_id = u
          /\ s.status = "active"
          /\ SqlLe(s.start_date, now)
          /\ SqlLe(now, s.end_date)

\* select * from course_videos where course_id = c, as user u
SelectCourseVideos(u, c) ==
    {cv \in course_videos : cv.course_id = c /\ CourseVideosPolicy(u, cv)}

\* the table without its unique constraint
NoUniqueConstraint(row) == FALSE

\* UNIQUE(user_id, course_id)
UniqueViolation(row) ==
    \E s \in subscriptions : s.user_id = row.user_id /\ s.course_id = row.course_id

\* an upsert that is admitted whatever the table holds
UpsertAlwaysAdmitted(u, row) == FALSE

\* .upsert(values) without onConflict and without an id: INSERT ... ON CONFLICT (id)
\* with a fresh id, so the primary key never conflicts and any other unique
\* violation is an error
UpsertFails(u, row) == ~SubInsertPolicy(u, row) \/ UniqueViolation(row)

\* .update(values).eq('id', id) as user u, values[s] being the row s with the
\* values written: rows the policy hides are silently skipped
UpdateById(u, id, values) ==
    {IF s.id = id /\ SubUpdatePolicy(u, s) THEN values[s] ELSE s : s \in subscriptions}

\* a delete that removes nothing
DeleteNothing(u, id) == subscriptions

\* .delete().eq('id', id) as user u
DeleteById(u, id) ==
    {s \in subscriptions : ~(s.id = id /\ SubDeletePolicy(u, s))}

\* ------------------------------------------------------------ environment
StoredDates ==
    {s.end_date : s \in subscriptions} \cup {p.expires_at : p \in course_passwords}

\* Time passes while no handler is between two backend calls: the clock moves
\* to a stored deadline or to the day after one (nothing reads the clock except
\* to compare it with a stored instant).
Tick ==
    /\ UNCHANGED content
    /\ UNCHANGED ops
    /\ \A u \in Users : pc[u] = "idle"
    /\ \E t \in StoredDates \cup {d + 1 : d \in StoredDates} :
          /\ now < t /\ t <= MaxNow
          /\ now' = t
    /\ toast' = NoToast
    /\ UNCHANGED <<profiles, subscriptions, nextSubId, course_passwords, receipts, stamp,
                   pc, loc, view, uses, stuck>>

\* A browser tab is closed (or the client dies) between two backend calls.
Crash(u) ==
    /\ UNCHANGED content
    /\ UNCHANGED ops
    /\ pc[u] # "idle"
    /\ pc' = [pc EXCEPT ![u] = "idle"]
    /\ loc' = [loc EXCEPT ![u] = NoLoc]
    /\ view' = [view EXCEPT ![u] = {}]
    /\ toast' = NoToast
    /\ UNCHANGED <<now, profiles, subscriptions, nextSubId, course_passwords,
                   receipts, stamp, uses, stuck>>

\* user u presses a button while no handler of that session is in flight
Start(u) ==
    /\ pc[u] = "idle"
    /\ ops < MaxOps
    /\ ops' = ops + 1

Done(u, kind) ==
    /\ pc' = [pc EXCEPT ![u] = "idle"]
    /\ loc' = [loc EXCEPT ![u] = NoLoc]
    /\ toast' = kind

\* -------------------------------------------- CoursePasswordGenerator.tsx
\* createPassword: an admin mints a password row for a course; the text is the
\* custom text as typed (not trimmed) or a generated one.  `ok`: the call succeeds.
createPassword(a, c, t, ok) ==
    /\ UNCHANGED content
    /\ is_admin(a) /\ Start(a)
    /\ Cardinality(course_passwords) < MaxPasswords
    /\ LET row == [id |-> Cardinality(course_passwords) + 1, course_id |-> c,
                   password |-> t, used |-> FALSE, expires_at |-> now + PasswordTTL]
       IN  IF ok /\ PasswordPolicy(a, row)
           THEN course_passwords' = course_passwords \cup {row} /\ Done(a, "success")
           ELSE UNCHANGED course_passwords /\ Done(a, "error")
    /\ UNCHANGED <<now, profiles, subscriptions, nextSubId, receipts, stamp, view, uses, stuck>>

\* ------------------------------------------------- CourseSubscription.tsx
\* the lookup without its expires_at filter
PasswordMatchesNoExpiry(u, c, t) ==
    {p \in course_passwords :
        /\ PasswordPolicy(u, p)
        /\ p.course_id = c
        /\ p.password = trim(t)
        /\ p.used = FALSE}

\* The rows the lookup of handlePasswordSubscription returns to user u
PasswordMatches(u, c, t) ==
    {p \in course_passwords :
        /\ PasswordPolicy(u, p)
        /\ p.course_id = c
        /\ p.password = trim(t)
        /\ p.used = FALSE
        /\ p.expires_at > now}

\* handlePasswordSubscription, first call: look the password up; .single() is an
\* error unless exactly one row comes back, and every error shows the
\* invalid-or-expired notification.
PwLookup(u, c, t, ok) ==
    /\ UNCHANGED content
    /\ Start(u)
    /\ LET rows == PasswordMatches(u, c, t)
       IN  IF ok /\ Cardinality(rows) = 1
           THEN /\ pc' = [pc EXCEPT ![u] = "pw_upsert"]
                /\ loc' = [loc EXCEPT ![u] =
                              [NoLoc EXCEPT !.course = c,
                                            !.pwId = (CHOOSE p \in rows : TRUE).id]]
                /\ toast' = NoToast
           ELSE Done(u, "invalid")
    /\ UNCHANGED <<now, profiles, subscriptions, nextSubId, course_passwords,
                   receipts, stamp, view, uses, stuck>>

\* The row handlePasswordSubscription upserts
ActiveRow(u, c) ==
    [id |-> nextSubId, user_id |-> u, course_id |-> c, status |-> "active",
     start_date |-> now, end_date |-> AddMonths(now, courses[c].duration_months),
     payment_proof |-> NoProof]

\* handlePasswordSubscription, second call: upsert the active subscription
PwUpsert(u, ok) ==
    /\ UNCHANGED content
    /\ UNCHANGED ops
    /\ pc[u] = "pw_upsert"
    /\ LET row == ActiveRow(u, loc[u].course)
       IN  IF ok /\ ~UpsertFails(u, row)
           THEN /\ nextSubId <= MaxSubId
                /\ subscriptions' = subscriptions \cup {row}
                /\ nextSubId' = nextSubId + 1
                /\ uses' = [uses EXCEPT ![loc[u].pwId] = @ + 1]
                /\ pc' = [pc EXCEPT ![u] = "pw_mark"]
                /\ toast' = NoToast
                /\ UNCHANGED loc
           ELSE /\ Done(u, "error")
                /\ UNCHANGED <<subscriptions, nextSubId, uses>>
    /\ UNCHANGED <<now, profiles, course_passwords, receipts, stamp, view, stuck>>

\* handlePasswordSubscription, third call: mark the password used; the result of
\* the call is not looked at, and the success notification follows
PwMarkUsed(u, ok) ==
    /\ UNCHANGED content
    /\ UNCHANGED ops
    /\ pc[u] = "pw_mark"
    /\ course_passwords' =
          {IF ok /\ p.id = loc[u].pwId /\ PasswordPolicy(u, p)
           THEN [p EXCEPT !.used = TRUE] ELSE p : p \in course_passwords}
    /\ Done(u, "success")
    /\ UNCHANGED <<now, profiles, subscriptions, nextSubId, receipts, stamp, view, uses, stuck>>

\* The object name handleFileUpload builds: `${user.id}/${course.id}_${Date.now()}`
ReceiptPath(u, c) == <<u, c, stamp>>

\* handleFileUpload, first call: upload the receipt to storage (no overwrite)
RcUpload(u, c, ok) ==
    /\ UNCHANGED content
    /\ Start(u)
    /\ LET path == ReceiptPath(u, c)
       IN  IF ok /\ ReceiptInsertPolicy(u, path) /\ path \notin receipts
           THEN /\ Cardinality(receipts) < MaxReceipts
                /\ receipts' = receipts \cup {path}
                /\ stamp' = stamp + 1
                /\ pc' = [pc EXCEPT ![u] = "rc_upsert"]
                /\ loc' = [loc EXCEPT ![u] = [NoLoc EXCEPT !.course = c, !.path = path]]
                /\ toast' = NoToast
           ELSE Done(u, "error") /\ UNCHANGED <<receipts, stamp>>
    /\ UNCHANGED <<now, profiles, subscriptions, nextSubId, course_passwords,
                   view, uses, stuck>>

\* The row handleFileUpload upserts
PendingRow(u, c, path) ==
    [id |-> nextSubId, user_id |-> u, course_id |-> c, status |-> "pending",
     start_date |-> NULL, end_date |-> NULL, payment_proof |-> path]

\* handleFileUpload, second call: upsert the pending subscription
RcUpsert(u, ok) ==
    /\ UNCHANGED content
    /\ UNCHANGED ops
    /\ pc[u] = "rc_upsert"
    /\ LET row == PendingRow(u, loc[u].course, loc[u].path)
       IN  IF ok /\ ~UpsertFails(u, row)
           THEN /\ nextSubId <= MaxSubId
                /\ subscriptions' = subscriptions \cup {row}
                /\ nextSubId' = nextSubId + 1
                /\ Done(u, "success")
           ELSE Done(u, "error") /\ UNCHANGED <<subscriptions, nextSubId>>
    /\ UNCHANGED <<now, profiles, course_passwords, receipts, stamp, view, uses, stuck>>

\* ------------------------------------------ AdminSubscriptionManagement.tsx
\* what select * from subscriptions returns to user u
Fetched(u, table) == {s \in table : SubSelectPolicy(u, s)}

\* fetchSubscriptions (on mount): load the list the buttons act on
fetchSubscriptions(a, ok) ==
    /\ UNCHANGED content
    /\ is_admin(a) /\ pc[a] = "idle"
    /\ IF ok
       THEN view' = [view EXCEPT ![a] = Fetched(a, subscriptions)] /\ toast' = NoToast
       ELSE UNCHANGED view /\ toast' = "error"
    /\ UNCHANGED <<now, profiles, subscriptions, nextSubId, course_passwords,
                   receipts, stamp, pc, loc, uses, stuck, ops>>

\* the approve and reject buttons are rendered for this row of the list
ApproveButton(sub) == sub.status = "pending" /\ sub.payment_proof # NoProof
\* the renew button
RenewButton(sub) == sub.status = "active"
\* the delete button
DeleteButton(sub) == sub.status = "expired" \/ sub.status = "pending"

\* a first update that also clears payment_proof
ActivateAndClear(s, dur) ==
    [s EXCEPT !.status = "active", !.start_date = now, !.end_date = AddMonths(now, dur),
              !.payment_proof = NoProof]

\* the first update of approveSubscription
Activate(s, dur) ==
    [s EXCEPT !.status = "active", !.start_date = now, !.end_date = AddMonths(now, dur)]

\* approveSubscription, first call: set the row active with its dates
ApproveUpdate(a, sub, ok) ==
    /\ UNCHANGED content
    /\ is_admin(a) /\ Start(a)
    /\ sub \in view[a] /\ ApproveButton(sub)
    /\ IF ok
       THEN /\ subscriptions' =
                  UpdateById(a, sub.id,
                      [s \in subscriptions |->
                          Activate(s, courses[sub.course_id].duration_months)])
            /\ pc' = [pc EXCEPT ![a] =
                          IF sub.payment_proof # NoProof THEN "ap_remove" ELSE "ap_clear"]
            /\ loc' = [loc EXCEPT ![a] = [NoLoc EXCEPT !.sub = sub]]
            /\ toast' = NoToast
       ELSE Done(a, "error") /\ UNCHANGED subscriptions
    /\ UNCHANGED <<now, profiles, nextSubId, course_passwords, receipts, stamp, view, uses, stuck>>

\* approveSubscription, second call: remove the receipt object; the result of
\* the call is not looked at
ApproveRemove(a, ok) ==
    /\ UNCHANGED content
    /\ UNCHANGED ops
    /\ pc[a] = "ap_remove"
    /\ receipts' = IF ok /\ ReceiptDeletePolicy(a, loc[a].sub.payment_proof)
                   THEN receipts \ {loc[a].sub.payment_proof}
                   ELSE receipts
    /\ pc' = [pc EXCEPT ![a] = "ap_clear"]
    /\ toast' = NoToast
    /\ UNCHANGED <<now, profiles, subscriptions, nextSubId, course_passwords, stamp,
                   loc, view, uses, stuck>>

\* an approval whose last write leaves payment_proof as it was
ClearNothing(s) == s

ClearProof(s) == [s EXCEPT !.payment_proof = NoProof]

\* approveSubscription, third call: clear payment_proof, notify, reload the list
ApproveClear(a, ok) ==
    /\ UNCHANGED content
    /\ UNCHANGED ops
    /\ pc[a] = "ap_clear"
    /\ IF ok
       THEN /\ subscriptions' =
                  UpdateById(a, loc[a].sub.id, [s \in subscriptions |-> ClearProof(s)])
            /\ view' = [view EXCEPT ![a] = Fetched(a, subscriptions')]
            /\ Done(a, "success")
            /\ UNCHANGED stuck
       ELSE /\ Done(a, "error")
            /\ stuck' = IF loc[a].sub.payment_proof \notin receipts
                        THEN stuck \cup {loc[a].sub.id} ELSE stuck
            /\ UNCHANGED <<subscriptions, view>>
    /\ UNCHANGED <<now, profiles, nextSubId, course_passwords, receipts, stamp, uses>>

\* rejectSubscription (after the confirm dialog): delete the row, reload the list
rejectSubscription(a, sub, ok) ==
    /\ UNCHANGED content
    /\ is_admin(a) /\ Start(a)
    /\ sub \in view[a] /\ ApproveButton(sub)
    /\ IF ok
       THEN /\ subscriptions' = DeleteById(a, sub.id)
            /\ view' = [view EXCEPT ![a] = Fetched(a, subscriptions')]
            /\ Done(a, "success")
       ELSE Done(a, "error") /\ UNCHANGED <<subscriptions, view>>
    /\ UNCHANGED <<now, profiles, nextSubId, course_passwords, receipts, stamp, uses, stuck>>

\* deleteSubscription (after the confirm dialog): delete the row, reload the list
deleteSubscription(a, sub, ok) ==
    /\ UNCHANGED content
    /\ is_admin(a) /\ Start(a)
    /\ sub \in view[a] /\ DeleteButton(sub)
    /\ IF ok
       THEN /\ subscriptions' = DeleteById(a, sub.id)
            /\ view' = [view EXCEPT ![a] = Fetched(a, subscriptions')]
            /\ Done(a, "success")
       ELSE Done(a, "error") /\ UNCHANGED <<subscriptions, view>>
    /\ UNCHANGED <<now, profiles, nextSubId, course_passwords, receipts, stamp, uses, stuck>>

\* a renewal that counts from now
RenewedEndFromNow(sub, months) == AddMonths(now, months)

\* the end date renewSubscription writes for the row of the list and `months`
RenewedEnd(sub, months) ==
    AddMonths(IF sub.end_date # NULL THEN sub.end_date ELSE now, months)

\* renewSubscription: extend the end date of the row opened in the dialog
renewSubscription(a, sub, months, ok) ==
    /\ UNCHANGED content
    /\ is_admin(a) /\ Start(a)
    /\ sub \in view[a] /\ RenewButton(sub)
    /\ RenewedEnd(sub, months) <= MaxEnd
    /\ IF ok
       THEN /\ subscriptions' =
                  UpdateById(a, sub.id,
                      [s \in subscriptions |->
                          [s EXCEPT !.end_date = RenewedEnd(sub, months),
                                    !.status = "active"]])
            /\ view' = [view EXCEPT ![a] = Fetched(a, subscriptions')]
            /\ Done(a, "success")
       ELSE Done(a, "error") /\ UNCHANGED <<subscriptions, view>>
    /\ UNCHANGED <<now, profiles, nextSubId, course_passwords, receipts, stamp, uses, stuck>>

\* ------------------------------------------------ check_subscription_expiry
\* a sweep that also takes the rows that end now
SweptInclusive(table) ==
    {IF s.status = "active" /\ SqlLe(s.end_date, now)
     THEN [s EXCEPT !.status = "expired"] ELSE s : s \in table}

\* a sweep that updates nothing
SweptNothing(table) == table

\* UPDATE subscriptions SET status = 'expired' WHERE status = 'active' AND end_date < now()
Swept(table) ==
    {IF s.status = "active" /\ SqlLt(s.end_date, now)
     THEN [s EXCEPT !.status = "expired"] ELSE s : s \in table}

\* the sweep an external scheduler runs
expireSweep ==
    /\ UNCHANGED content
    /\ UNCHANGED ops
    /\ subscriptions' = Swept(subscriptions)
    /\ toast' = NoToast
    /\ UNCHANGED <<now, profiles, nextSubId, course_passwords, receipts, stamp,
                   pc, loc, view, uses, stuck>>

\* the renewal periods the dialog offers that the model explores
RenewalMonths == {1, 2}

Next ==
    \/ Tick
    \/ \E u \in Users : Crash(u)
    \/ \E a \in Users, c \in Courses, t \in Texts, ok \in BOOLEAN :
          createPassword(a, c, t, ok)
    \/ \E u \in Users, c \in Courses, t \in Texts, ok \in BOOLEAN :
          PwLookup(u, c, t, ok)
    \/ \E u \in Users, ok \in BOOLEAN : PwUpsert(u, ok)
    \/ \E u \in Users, ok \in BOOLEAN : PwMarkUsed(u, ok)
    \/ \E u \in Users, c \in Courses, ok \in BOOLEAN : RcUpload(u, c, ok)
    \/ \E u \in Users, ok \in BOOLEAN : RcUpsert(u, ok)
    \/ \E a \in Users, ok \in BOOLEAN : fetchSubscriptions(a, ok)
    \/ \E a \in Users, ok \in BOOLEAN : \E sub \in view[a] : ApproveUpdate(a, sub, ok)
    \/ \E a \in Users, ok \in BOOLEAN : ApproveRemove(a, ok)
    \/ \E a \in Users, ok \in BOOLEAN : ApproveClear(a, ok)
    \/ \E a \in Users, ok \in BOOLEAN : \E sub \in view[a] : rejectSubscription(a, sub, ok)
    \/ \E a \in Users, ok \in BOOLEAN : \E sub \in view[a] : deleteSubscription(a, sub, ok)
    \/ \E a \in Users, ok \in BOOLEAN : \E sub \in view[a], m \in RenewalMonths :
          renewSubscription(a, sub, m, ok)
    \/ expireSweep

Spec == Init /\ [][Next]_vars

\* the pages, with an external scheduler that keeps invoking the sweep
SpecScheduled == Init /\ [][Next]_vars /\ WF_vars(expireSweep)

\* the days the clock may show when the first user arrives: 1 and 31 January
StartDays == {0, 30}

InitAnyDay ==
    /\ now \in StartDays
    /\ profiles = RoleSetup
    /\ subscriptions = {}
    /\ nextSubId = 1
    /\ course_passwords = {}
    /\ receipts = {}
    /\ stamp = 1
    /\ pc = [u \in Users |-> "idle"]
    /\ loc = [u \in Users |-> NoLoc]
    /\ view = [u \in Users |-> {}]
    /\ toast = NoToast
    /\ uses = [i \in 1..MaxPasswords |-> 0]
    /\ stuck = {}
    /\ ops = 0
    /\ ContentInit

\* the pages, first used at the start or at the end of a month
SpecMonthEnd == InitAnyDay /\ [][Next]_vars

\* ---------------------------------------- writes the policies leave open
Statuses == {"pending", "active", "expired"}

\* A signed-in user calls the data API directly, not through a page: the UPDATE
\* policy of subscriptions admits any change to a row the user owns.
RawUpdateOwn(u, s, st) ==
    /\ UNCHANGED content
    /\ Start(u)
    /\ s \in subscriptions /\ s.user_id = u /\ s.status # st
    /\ subscriptions' =
          UpdateById(u, s.id, [r \in subscriptions |-> [r EXCEPT !.status = st]])
    /\ Done(u, "none")
    /\ UNCHANGED <<now, profiles, nextSubId, course_passwords, receipts, stamp, view,
                   uses, stuck>>

\* The INSERT policy of subscriptions admits any row that names the caller.
RawInsertOwn(u, c, st) ==
    /\ UNCHANGED content
    /\ Start(u)
    /\ nextSubId <= MaxSubId
    /\ LET row == [ActiveRow(u, c) EXCEPT !.status = st]
       IN  /\ SubInsertPolicy(u, row) /\ ~UniqueViolation(row)
           /\ subscriptions' = subscriptions \cup {row}
    /\ nextSubId' = nextSubId + 1
    /\ Done(u, "none")
    /\ UNCHANGED <<now, profiles, course_passwords, receipts, stamp, view, uses, stuck>>

NextAPI ==
    \/ Next
    \/ \E u \in Users, st \in Statuses : \E s \in subscriptions : RawUpdateOwn(u, s, st)
    \/ \E u \in Users, c \in Courses, st \in Statuses : RawInsertOwn(u, c, st)

\* the pages and, beside them, direct calls of the data API
SpecAPI == Init /\ [][NextAPI]_vars

\* --------------------------------------------------- content: the backend
MaxVideos == 2        \* video rows ever inserted

VideoStatuses == {"processing", "ready", "disabled"}
ExternalUrl == <<"https", "x">>   \* the link typed into the URL field

\* the policy without its status condition
VideoSelectPolicyAnyStatus(u, v) == profiles[u].approved \/ is_admin(u)

\* "Approved students can view ready videos" / "Admins can manage all videos"
VideoSelectPolicy(u, v) ==
    \/ v.status = "ready" /\ profiles[u].approved
    \/ is_admin(u)

\* "Students can access videos they can view" / "Admins can manage all video files"
VideoFileSelectPolicy(u, name) ==
    \/ \E v \in videos : v.file_path = name /\ v.status = "ready" /\ profiles[u].approved
    \/ is_admin(u)

\* "Anyone can view active courses" / "Admins can manage courses"
CoursesSelectPolicy(u, c) == course_active[c] \/ is_admin(u)

\* select * from videos, as user u
SelectVideos(u) == {v \in videos : VideoSelectPolicy(u, v)}

\* the objects of the videos bucket user u can read
SelectVideoFiles(u) == {f \in video_files : VideoFileSelectPolicy(u, f)}

\* storage.from('videos').createSignedUrl(path, seconds) as user u: an error
\* (NoUrl) unless the path names an object the user can read
createSignedUrl(u, path, seconds) ==
    IF path # NoUrl /\ path \in SelectVideoFiles(u)
    THEN <<"signed", path, seconds>> ELSE NoUrl

\* ------------------------------------------------- content: student pages
\* the subscription side, which the content handlers never write
billing == <<subscriptions, nextSubId, course_passwords, receipts, view, uses, stuck>>

NoVideo == [id |-> 0, status |-> "", video_type |-> "", file_path |-> NoUrl,
            video_url |-> NoUrl]

\* VideoPlayer.fetchVideo, second call: the URL the player is given for row v
Resolve(u, v) == createSignedUrl(u, v.file_path, 3600)

\* the rows VideoPlayer.fetchVideo's lookup returns: id = vid and status = 'ready'
PlayerLookup(u, vid) == {v \in SelectVideos(u) : v.id = vid /\ v.status = "ready"}

\* VideoPlayer.fetchVideo: look the video up, then resolve its URL; either
\* error shows a notification and leaves the page
fetchVideo(u, vid, ok) ==
    /\ pc[u] = "idle"
    /\ LET rows == PlayerLookup(u, vid)
       IN  IF ok /\ rows # {} /\ Resolve(u, CHOOSE v \in rows : TRUE) # NoUrl
           THEN /\ player' = [player EXCEPT ![u] = Resolve(u, CHOOSE v \in rows : TRUE)]
                /\ toast' = NoToast
           ELSE /\ player' = [player EXCEPT ![u] = NoUrl]
                /\ toast' = "error"
    /\ UNCHANGED <<now, profiles, stamp, pc, loc, ops, billing,
                   videos, video_files, nextVideoId, course_active, viewer>>

\* the course row CourseViewer.fetchCourseData reads: id = c and is_active = true
ViewerCourse(u, c) == CoursesSelectPolicy(u, c) /\ course_active[c]

\* the subscription rows it reads: active, of (u, c), end_date >= now
ViewerSubscription(u, c) ==
    {s \in Fetched(u, subscriptions) :
        /\ s.user_id = u /\ s.course_id = c /\ s.status = "active"
        /\ SqlLe(now, s.end_date)}

\* the playlist it reads: the course_videos rows of c, each with its video
\* embedded when that video is visible to u and ready, and null otherwise
ViewerPlaylist(u, c) ==
    {[course_id |-> cv.course_id, video_id |-> cv.video_id,
      video |-> IF \E v \in SelectVideos(u) : v.id = cv.video_id /\ v.status = "ready"
                THEN CHOOSE v \in SelectVideos(u) : v.id = cv.video_id
                ELSE NoVideo]
        : cv \in SelectCourseVideos(u, c)}

\* CourseViewer.fetchCourseData: course, subscription, playlist; without the
\* course or the subscription the page is left
fetchCourseData(u, c, ok) ==
    /\ pc[u] = "idle"
    /\ IF ok /\ ViewerCourse(u, c) /\ ViewerSubscription(u, c) # {}
       THEN /\ viewer' = [viewer EXCEPT ![u] = [open |-> TRUE, list |-> ViewerPlaylist(u, c)]]
            /\ toast' = NoToast
       ELSE /\ viewer' = [viewer EXCEPT ![u] = NoPage]
            /\ toast' = "error"
    /\ UNCHANGED <<now, profiles, stamp, pc, loc, ops, billing,
                   videos, video_files, nextVideoId, course_active, player>>

\* --------------------------------------------------- content: admin pages
\* what the admin pages leave alone besides the tables they write
pages == <<now, billing, player, viewer>>

\* AdminDashboard.approveUser: the button of a user who is not approved
approveUser(a, u, ok) ==
    /\ is_admin(a) /\ Start(a)
    /\ ~profiles[u].approved
    /\ IF ok
       THEN profiles' = [profiles EXCEPT ![u].approved = TRUE] /\ Done(a, "success")
       ELSE UNCHANGED profiles /\ Done(a, "error")
    /\ UNCHANGED <<pages, stamp, videos, video_files, nextVideoId, course_active>>

\* AdminDashboard.rejectUser: the button of a user who is approved
rejectUser(a, u, ok) ==
    /\ is_admin(a) /\ Start(a)
    /\ profiles[u].approved
    /\ IF ok
       THEN profiles' = [profiles EXCEPT ![u].approved = FALSE] /\ Done(a, "success")
       ELSE UNCHANGED profiles /\ Done(a, "error")
    /\ UNCHANGED <<pages, stamp, videos, video_files, nextVideoId, course_active>>

\* toggleCourseStatus: flip is_active of the listed course
toggleCourseStatus(a, c, ok) ==
    /\ is_admin(a) /\ Start(a)
    /\ IF ok
       THEN course_active' = [course_active EXCEPT ![c] = ~course_active[c]]
            /\ Done(a, "success")
       ELSE UNCHANGED course_active /\ Done(a, "error")
    /\ UNCHANGED <<pages, profiles, stamp, videos, video_files, nextVideoId>>

\* .update(values).eq('id', id) on videos by an admin
UpdateVideo(id, values) == {IF v.id = id THEN values[v] ELSE v : v \in videos}

\* toggleVideoStatus: ready becomes disabled, anything else becomes ready (the
\* admin's list is reloaded on mount and after every change; the listed row is
\* taken to be the stored one)
toggleVideoStatus(a, v, ok) ==
    /\ is_admin(a) /\ Start(a)
    /\ v \in videos
    /\ IF ok
       THEN /\ videos' = UpdateVideo(v.id,
                   [r \in videos |->
                       [r EXCEPT !.status = IF v.status = "ready" THEN "disabled"
                                                                  ELSE "ready"]])
            /\ Done(a, "success")
       ELSE UNCHANGED videos /\ Done(a, "error")
    /\ UNCHANGED <<pages, profiles, stamp, video_files, nextVideoId, course_active>>

\* VideoManagement.handleSaveEdit: the dialog offers the statuses ready and disabled
handleSaveEdit(a, v, st, ok) ==
    /\ is_admin(a) /\ Start(a)
    /\ v \in videos /\ st \in {"ready", "disabled"}
    /\ IF ok
       THEN /\ videos' = UpdateVideo(v.id, [r \in videos |-> [r EXCEPT !.status = st]])
            /\ Done(a, "success")
       ELSE UNCHANGED videos /\ Done(a, "error")
    /\ UNCHANGED <<pages, profiles, stamp, video_files, nextVideoId, course_active>>

\* The path handleUpload builds: `videos/${Date.now()}-${name}`
VideoPath == <<"videos", stamp>>

\* VideoUpload.handleUpload with a link: one insert, ready at once
VuInsertUrl(a, ok) ==
    /\ is_admin(a) /\ Start(a)
    /\ nextVideoId <= MaxVideos
    /\ IF ok
       THEN /\ videos' = videos \cup
                   {[id |-> nextVideoId, status |-> "ready", video_type |-> "url",
                     file_path |-> NoUrl, video_url |-> ExternalUrl]}
            /\ nextVideoId' = nextVideoId + 1
            /\ Done(a, "success")
       ELSE UNCHANGED <<videos, nextVideoId>> /\ Done(a, "error")
    /\ UNCHANGED <<pages, profiles, stamp, video_files, course_active>>

\* VideoUpload.handleUpload with a file, first call: insert the row, processing
VuInsert(a, ok) ==
    /\ is_admin(a) /\ Start(a)
    /\ nextVideoId <= MaxVideos
    /\ IF ok
       THEN /\ videos' = videos \cup
                   {[id |-> nextVideoId, status |-> "processing", video_type |-> "file",
                     file_path |-> VideoPath, video_url |-> NoUrl]}
            /\ nextVideoId' = nextVideoId + 1
            /\ pc' = [pc EXCEPT ![a] = "vu_store"]
            /\ loc' = [loc EXCEPT ![a] =
                          [NoLoc EXCEPT !.video = nextVideoId, !.path = VideoPath]]
            /\ toast' = NoToast
            /\ stamp' = stamp + 1
       ELSE UNCHANGED <<videos, nextVideoId, stamp>> /\ Done(a, "error")
    /\ UNCHANGED <<pages, profiles, video_files, course_active>>

\* second call: upload the file (no overwrite) under a path built again, in
\* the same millisecond as the first or in a later one
VuStore(a, ok) ==
    /\ pc[a] = "vu_store"
    /\ \E path \in {loc[a].path, VideoPath} :
          IF ok /\ path \notin video_files
          THEN /\ video_files' = video_files \cup {path}
               /\ stamp' = stamp + 1
               /\ pc' = [pc EXCEPT ![a] = "vu_path"]
               /\ loc' = [loc EXCEPT ![a].path = path]
               /\ toast' = NoToast
          ELSE UNCHANGED <<video_files, stamp>> /\ Done(a, "error")
    /\ UNCHANGED <<pages, profiles, ops, videos, nextVideoId, course_active>>

\* third call: write the final file_path
VuSetPath(a, ok) ==
    /\ pc[a] = "vu_path"
    /\ IF ok
       THEN /\ videos' = UpdateVideo(loc[a].video,
                   [r \in videos |-> [r EXCEPT !.file_path = loc[a].path]])
            /\ pc' = [pc EXCEPT ![a] = "vu_process"]
            /\ toast' = NoToast
            /\ UNCHANGED loc
       ELSE UNCHANGED videos /\ Done(a, "error")
    /\ UNCHANGED <<pages, profiles, stamp, ops, video_files, nextVideoId, course_active>>

\* fourth call: the process-video-upload function marks the row ready
VuProcess(a, ok) ==
    /\ pc[a] = "vu_process"
    /\ IF ok /\ \E v \in videos : v.id = loc[a].video
       THEN /\ videos' = UpdateVideo(loc[a].video,
                   [r \in videos |-> [r EXCEPT !.status = "ready"]])
            /\ Done(a, "success")
       ELSE UNCHANGED videos /\ Done(a, "error")
    /\ UNCHANGED <<pages, profiles, stamp, ops, video_files, nextVideoId, course_active>>

\* the student of the model holds an active subscription to c1, as after an
\* approved receipt, or none
InitContent ==
    /\ now = 0
    /\ profiles = RoleSetup
    /\ \E held \in BOOLEAN :
          /\ subscriptions =
                IF held
                THEN {[id |-> 1, user_id |-> "u2", course_id |-> "c1", status |-> "active",
                       start_date |-> 0,
                       end_date |-> AddMonths(0, courses["c1"].duration_months),
                       payment_proof |-> NoProof]}
                ELSE {}
          /\ nextSubId = IF held THEN 2 ELSE 1
    /\ course_passwords = {}
    /\ receipts = {}
    /\ stamp = 1
    /\ pc = [u \in Users |-> "idle"]
    /\ loc = [u \in Users |-> NoLoc]
    /\ view = [u \in Users |-> {}]
    /\ toast = NoToast
    /\ uses = [i \in 1..MaxPasswords |-> 0]
    /\ stuck = {}
    /\ ops = 0
    /\ ContentInit

NextContent ==
    \/ Tick
    \/ \E u \in Users : Crash(u)
    \/ expireSweep
    \/ \E u \in Users, v \in 1..MaxVideos, ok \in BOOLEAN : fetchVideo(u, v, ok)
    \/ \E u \in Users, c \in Courses, ok \in BOOLEAN : fetchCourseData(u, c, ok)
    \/ \E a \in Users, u \in Users, ok \in BOOLEAN : approveUser(a, u, ok)
    \/ \E a \in Users, u \in Users, ok \in BOOLEAN : rejectUser(a, u, ok)
    \/ \E a \in Users, c \in Courses, ok \in BOOLEAN : toggleCourseStatus(a, c, ok)
    \/ \E a \in Users, ok \in BOOLEAN : \E v \in videos : toggleVideoStatus(a, v, ok)
    \/ \E a \in Users, st \in VideoStatuses, ok \in BOOLEAN :
          \E v \in videos : handleSaveEdit(a, v, st, ok)
    \/ \E a \in Users, ok \in BOOLEAN : VuInsertUrl(a, ok)
    \/ \E a \in Users, ok \in BOOLEAN : VuInsert(a, ok)
    \/ \E a \in Users, ok \in BOOLEAN : VuStore(a, ok)
    \/ \E a \in Users, ok \in BOOLEAN : VuSetPath(a, ok)
    \/ \E a \in Users, ok \in BOOLEAN : VuProcess(a, ok)

\* the content pages and the admin's management of users, courses and videos
SpecContent == InitContent /\ [][NextContent]_vars

\* --------------------------------------------- Courses / StudentDashboard
\* getSubscriptionStatus for a fetched row s of the course: the badge shown
getSubscriptionStatus(s) ==
    IF s.status = "active" /\ s.end_date # NULL
    THEN IF s.end_date > now THEN "active" ELSE "expired"
    ELSE s.status

\* the filter of CourseViewer's subscription check on a row: active, end_date >= now
ViewerCheck(s) == s.status = "active" /\ SqlLe(now, s.end_date)

\* the subscription condition of "Subscribed users can view course videos" on a row
PolicyWindow(s) ==
    s.status = "active" /\ SqlLe(s.start_date, now) /\ SqlLe(now, s.end_date)

\* ------------------------------------------------- two administrators
\* both accounts hold role admin (profiles.role is a column an admin may set)
TwoAdmins == [u \in Users |-> [role |-> "admin", approved |-> TRUE]]

\* the row and the object a receipt request of u2 for c1 left behind
SeedProof == <<"u2", "c1", 0>>
SeedRow == [id |-> 1, user_id |-> "u2", course_id |-> "c1", status |-> "pending",
            start_date |-> NULL, end_date |-> NULL, payment_proof |-> SeedProof]

\* two admins; nothing requested yet, or one receipt request waiting for review
InitTwoAdmins ==
    /\ now = 0
    /\ profiles = TwoAdmins
    /\ \E seeded \in BOOLEAN :
          /\ subscriptions = IF seeded THEN {SeedRow} ELSE {}
          /\ receipts = IF seeded THEN {SeedProof} ELSE {}
          /\ nextSubId = IF seeded THEN 2 ELSE 1
    /\ course_passwords = {}
    /\ stamp = 1
    /\ pc = [u \in Users |-> "idle"]
    /\ loc = [u \in Users |-> NoLoc]
    /\ view = [u \in Users |-> {}]
    /\ toast = NoToast
    /\ uses = [i \in 1..MaxPasswords |-> 0]
    /\ stuck = {}
    /\ ops = 0
    /\ ContentInit

\* the pages, used by two administrators at once
SpecTwoAdmins == InitTwoAdmins /\ [][Next]_vars

\* two administrators review the waiting receipt request: both lists show the
\* row, and every backend call of approve succeeds, in any order
InitApproveRace ==
    /\ now \in StartDays
    /\ profiles = TwoAdmins
    /\ subscriptions = {SeedRow}
    /\ receipts = {SeedProof}
    /\ nextSubId = 2
    /\ course_passwords = {}
    /\ stamp = 1
    /\ pc = [u \in Users |-> "idle"]
    /\ loc = [u \in Users |-> NoLoc]
    /\ view = [u \in Users |-> {}]
    /\ toast = NoToast
    /\ uses = [i \in 1..MaxPasswords |-> 0]
    /\ stuck = {}
    /\ ops = 0
    /\ ContentInit

NextApproveRace ==
    \/ Tick
    \/ \E a \in Users : fetchSubscriptions(a, TRUE)
    \/ \E a \in Users : \E sub \in view[a] : ApproveUpdate(a, sub, TRUE)
    \/ \E a \in Users : ApproveRemove(a, TRUE)
    \/ \E a \in Users : ApproveClear(a, TRUE)

SpecApproveRace == InitApproveRace /\ [][NextApproveRace]_vars

\* ---------------------------------------- writes the profiles policies admit
Roles == {"student", "admin"}

\* "Users can update own profile" / "Admins can manage all profiles": UPDATE of
\* the row of `target` by u; neither policy names a column
ProfileUpdatePolicy(u, target) == u = target \/ is_admin(u)

\* A signed-in user updates the own profile row through the data API
RawUpdateProfile(u, role, approved) ==
    /\ Start(u)
    /\ ProfileUpdatePolicy(u, u)
    /\ profiles[u] # [role |-> role, approved |-> approved]
    /\ profiles' = [profiles EXCEPT ![u] = [role |-> role, approved |-> approved]]
    /\ Done(u, "none")
    /\ UNCHANGED <<pages, stamp, videos, video_files, nextVideoId, course_active>>

NextProfileAPI ==
    \/ NextContent
    \/ \E u \in Users, r \in Roles, ap \in BOOLEAN : RawUpdateProfile(u, r, ap)

\* the content and admin pages and, beside them, direct updates of profiles
SpecProfileAPI == InitContent /\ [][NextProfileAPI]_vars

\* ------------------------------------------------------------------ claims
\* the claimed condition of access: an active row of (u, c) whose window holds now
InWindow(u, c) ==
    \E s \in subscriptions :
        /\ s.user_id = u /\ s.course_id = c /\ s.status = "active"
        /\ s.start_date # NULL /\ s.end_date # NULL
        /\ s.start_date <= now /\ now <= s.end_date

\* C1: in every reachable state a non-admin user can read a course_videos row of
\* a course exactly when an active subscription row of (user, course) has
\* start_date <= now <= end_date.
C1_AccessGate ==
    \A u \in Users : ~is_admin(u) =>
        \A cv \in course_videos :
            (cv \in SelectCourseVideos(u, cv.course_id)) <=> InWindow(u, cv.course_id)

\* C1 witness: a student's row is still flagged active after its end_date has
\* passed (the sweep has not run) and the student reads no playlist row.
C1_Witness ==
    \E u \in Users, s \in subscriptions :
        /\ ~is_admin(u) /\ s.user_id = u /\ s.status = "active"
        /\ s.end_date # NULL /\ s.end_date < now
        /\ SelectCourseVideos(u, s.course_id) = {}

\* C8: at most one subscription row per (user_id, course_id).
C8_UniquePerPair ==
    \A s1 \in subscriptions, s2 \in subscriptions :
        (s1.user_id = s2.user_id /\ s1.course_id = s2.course_id) => s1 = s2

\* C8 witness: a row exists for a pair and a later upsert for the same pair has
\* just been refused (a second receipt was uploaded for it).
C8_Witness ==
    /\ toast = "error"
    /\ \E s \in subscriptions, r \in receipts :
          /\ r # s.payment_proof /\ r[1] = s.user_id /\ r[2] = s.course_id

\* row r of the next state is active and was not active (or did not exist) before
NewlyActive(r) ==
    /\ r \in subscriptions' /\ r.status = "active"
    /\ \A s \in subscriptions : s.id = r.id => s.status # "active"

\* C4: a row becomes active only in the upsert of a password redemption that
\* found a valid password, or in an admin's approval (or an admin's renewal,
\* which re-asserts active); a student has no other
\* write that sets the student's own row active, and a pending row of the receipt
\* path becomes active only by an admin's approval.
C4_OnlyRedeemOrApprove ==
    [][\A r \in subscriptions' :
          (NewlyActive(r) /\ ~is_admin(r.user_id))
              => \/ /\ pc[r.user_id] = "pw_upsert" /\ pc'[r.user_id] = "pw_mark"
                    /\ uses'[loc[r.user_id].pwId] = uses[loc[r.user_id].pwId] + 1
                 \/ \E a \in Users, ok \in BOOLEAN :
                       /\ is_admin(a) /\ \E sub \in view[a] : ApproveUpdate(a, sub, ok)
                 \/ \E a \in Users, ok \in BOOLEAN, m \in RenewalMonths :
                       /\ is_admin(a)
                       /\ \E sub \in view[a] : renewSubscription(a, sub, m, ok)
      ]_vars

\* an unused, unexpired row of course c whose password is the entered text
ValidPasswords(c, t) ==
    {p \in course_passwords :
        p.course_id = c /\ p.password = trim(t) /\ ~p.used /\ p.expires_at > now}

\* the session of u is inside a redemption of password id
Redeeming(u, id) == pc[u] \in {"pw_upsert", "pw_mark"} /\ loc[u].pwId = id

\* C2: one-time use.  A request with an unused, unexpired password goes on to
\* activate; a redemption that completes leaves its password used; and no
\* password activates a second subscription.
C2_OneTimeUse ==
    [][/\ \A u \in Users, c \in Courses, t \in Texts :
            (PwLookup(u, c, t, TRUE) /\ Cardinality(ValidPasswords(c, t)) = 1)
                => pc'[u] = "pw_upsert"
       /\ \A u \in Users, ok \in BOOLEAN :
            PwMarkUsed(u, ok)
                => \A p \in course_passwords' : p.id = loc[u].pwId => p.used
       /\ \A u \in Users :
            (PwUpsert(u, TRUE) /\ pc'[u] = "pw_mark") => uses[loc[u].pwId] = 0
      ]_vars

\* C3: redemption is atomic: whenever no session is inside a redemption of a
\* password, a password that activated a subscription is marked used.
C3_RedemptionAtomic ==
    \A p \in course_passwords :
        (uses[p.id] > 0 /\ \A u \in Users : ~Redeeming(u, p.id)) => p.used

\* C5: a lookup the backend answers ends invalid-or-expired exactly when no
\* unused, unexpired row of the course carries the entered password.
C5_InvalidIffAbsent ==
    [][\A u \in Users, c \in Courses, t \in Texts :
          PwLookup(u, c, t, TRUE)
              => ((pc'[u] = "idle" /\ toast' = "invalid") <=> ValidPasswords(c, t) = {})
      ]_vars

\* C6: when every row of the course that carries the entered password has
\* expires_at <= now, used or not, the request ends invalid-or-expired and
\* changes neither subscriptions nor course_passwords.
C6_ExpiredAlwaysFails ==
    [][\A u \in Users, c \in Courses, t \in Texts, ok \in BOOLEAN :
          (/\ PwLookup(u, c, t, ok)
           /\ \E p \in course_passwords : p.course_id = c /\ p.password = trim(t)
           /\ \A p \in course_passwords :
                 (p.course_id = c /\ p.password = trim(t)) => p.expires_at <= now)
              => /\ pc'[u] = "idle" /\ toast' = "invalid"
                 /\ subscriptions' = subscriptions
                 /\ course_passwords' = course_passwords
      ]_vars

\* C6 witness: an unused password has expired and a request has just been
\* answered invalid-or-expired.
C6_Witness ==
    /\ toast = "invalid"
    /\ course_passwords # {}
    /\ \A p \in course_passwords : ~p.used /\ p.expires_at <= now

\* C7: the upsert of a redemption, when the call goes through, never fails and
\* leaves exactly one row of (user, course), active from now to now + duration.
C7_CreatesOrUpgrades ==
    [][\A u \in Users :
          PwUpsert(u, TRUE)
              => /\ toast' # "error"
                 /\ \E s \in subscriptions' :
                       /\ s.user_id = u /\ s.course_id = loc[u].course
                       /\ s.status = "active" /\ s.start_date = now
                       /\ s.end_date =
                            AddMonths(now, courses[loc[u].course].duration_months)
      ]_vars

\* C9: when approve reports success the row is active from now to
\* now + duration, payment_proof is null and the receipt object is gone.
C9_ApprovePostcondition ==
    [][\A a \in Users :
          (ApproveClear(a, TRUE) /\ toast' = "success")
              => /\ loc[a].sub.payment_proof \notin receipts'
                 /\ \E s \in subscriptions' :
                       /\ s.id = loc[a].sub.id
                       /\ s.status = "active" /\ s.payment_proof = NoProof
                       /\ s.start_date = now
                       /\ s.end_date =
                            AddMonths(now, courses[s.course_id].duration_months)
      ]_vars

\* payment_proof of row s names an object the bucket does not hold
Dangling(s) == s.payment_proof # NoProof /\ s.payment_proof \notin receipts

C11_RenewExtendsFromEnd ==
    [][\A a \in Users, m \in RenewalMonths : \A sub \in view[a] :
          renewSubscription(a, sub, m, TRUE)
              => \A s \in subscriptions :
                    (s.id = sub.id /\ s.end_date # NULL /\ s.end_date > now)
                        => \E r \in subscriptions' :
                              /\ r.id = s.id
                              /\ r.end_date = AddMonths(s.end_date, m)
                              /\ r.status = "active"
                              /\ r.start_date = s.start_date
      ]_vars

\* C11 witness: a renewal has just succeeded on a row whose end_date was in the
\* future: the row ends later than its first term and that term is not over.
C11_Witness ==
    /\ toast = "success"
    /\ \E s \in subscriptions :
          /\ s.status = "active" /\ s.start_date # NULL
          /\ LET first == AddMonths(s.start_date, courses[s.course_id].duration_months)
             IN  now < first /\ first < s.end_date

\* C12: a renewal that goes through, of a stored row whose end_date has passed,
\* sets end_date to now advanced by the chosen months, so the renewed row is
\* active with end_date > now.
C12_RenewFromLaterOfNowAndEnd ==
    [][\A a \in Users, m \in RenewalMonths : \A sub \in view[a] :
          renewSubscription(a, sub, m, TRUE)
              => \A s \in subscriptions :
                    (s.id = sub.id /\ s.end_date # NULL /\ s.end_date < now)
                        => \E r \in subscriptions' :
                              /\ r.id = s.id
                              /\ r.status = "active"
                              /\ r.end_date = AddMonths(now, m)
                              /\ r.end_date > now
      ]_vars

\* row s is flagged active although its end_date has passed
Overdue(s) == s.status = "active" /\ s.end_date # NULL /\ s.end_date < now

\* C13: the sweep sets status expired on exactly the overdue rows: after it no
\* row is overdue, an overdue row changes in status only, every other row
\* (pending, expired, active with end_date >= now or without end_date) is left
\* as it was, and a second sweep at the same time changes nothing more.
C13_SweepExactlyOverdue ==
    [][expireSweep
          => /\ \A r \in subscriptions' : ~(r.status = "active" /\ r.end_date # NULL
                                                /\ r.end_date < now')
             /\ subscriptions' =
                   {s \in subscriptions : ~Overdue(s)}
                      \cup {[s EXCEPT !.status = "expired"] : s \in {t \in subscriptions : Overdue(t)}}
             /\ \A s \in subscriptions :
                   (s.status = "active" /\ (s.end_date = NULL \/ s.end_date >= now))
                       => s \in subscriptions'
             /\ Swept(Swept(subscriptions)) = Swept(subscriptions)
      ]_vars

\* C13 witness: the sweep has expired a row while a pending row stands beside it.
C13_Witness ==
    /\ \E s \in subscriptions : s.status = "expired" /\ s.end_date < now
    /\ \E s \in subscriptions : s.status = "pending"

\* C14: with a scheduler that keeps invoking the sweep, a row that is flagged
\* active after its end_date is eventually expired, unless it is renewed past
\* now or deleted first (again and again a state is reached in which no row
\* is flagged active after its end_date); and no step other than the sweep
\* sets a row expired.
C14_ExpiryEventually ==
    /\ []<>(\A s \in subscriptions : ~Overdue(s))
    /\ [][(\E r \in subscriptions' :
               /\ r.status = "expired"
               /\ \A s \in subscriptions : s.id = r.id => s.status # "expired")
              => expireSweep]_vars

\* C14 witness: the sweep has expired a row the day after its end_date, while
\* the admin's list still shows it active.
C14_Witness ==
    \E s \in subscriptions, a \in Users :
        /\ s.status = "expired" /\ now = s.end_date + 1
        /\ \E v \in view[a] : v.id = s.id /\ v.status = "active"

\* C15: the end_date written by a redemption or an approval lies in the month
\* duration_months after the month of the start date, on the same day of the
\* month or, when that month is shorter, on its last day.
C15_CalendarMonths ==
    [][\A r \in subscriptions' :
          (NewlyActive(r) /\ r.start_date = now)
              => LET dur == courses[r.course_id].duration_months
                     tm  == (getMonth(r.start_date) + dur) % 12
                 IN  /\ getMonth(r.end_date) = tm
                     /\ getDate0(r.end_date) =
                           IF getDate0(r.start_date) < MonthLen[tm + 1]
                           THEN getDate0(r.start_date) ELSE MonthLen[tm + 1] - 1
      ]_vars

\* some read path returns video v to user u: the videos table, the VideoPlayer
\* lookup, the playlist of a course the CourseViewer page opens, or the file of
\* the video in storage
Returned(u, v) ==
    \/ v \in SelectVideos(u)
    \/ v \in PlayerLookup(u, v.id)
    \/ \E c \in Courses : \E e \in ViewerPlaylist(u, c) : e.video = v
    \/ v.file_path # NoUrl /\ v.file_path \in SelectVideoFiles(u)

\* C16: in every reachable state no read path returns a video whose status is
\* disabled or processing to a non-admin user, whatever subscription is held.
C16_NotReadyNeverReturned ==
    \A u \in Users : ~is_admin(u) =>
        \A v \in videos : v.status # "ready" => ~Returned(u, v)

\* C16 witness: an approved student who holds an active subscription, and a
\* video of the subscribed course that the admin has disabled.
C16_Witness ==
    \E u \in Users, v \in videos, s \in subscriptions, cv \in course_videos :
        /\ ~is_admin(u) /\ profiles[u].approved
        /\ s.user_id = u /\ s.status = "active" /\ SqlLe(now, s.end_date)
        /\ cv.course_id = s.course_id /\ cv.video_id = v.id
        /\ v.status = "disabled" /\ v.file_path \in video_files

\* C17: the resolver dispatches on video_type: for a ready video the user may
\* read, a file video plays from a signed URL of file_path that expires after
\* 3600 seconds and a url video plays from its stored video_url, unchanged.
C17_ResolverDispatch ==
    [][\A u \in Users : \A v \in videos :
          (fetchVideo(u, v.id, TRUE) /\ v.status = "ready" /\ v \in SelectVideos(u))
              => /\ v.video_type = "file" => player'[u] = <<"signed", v.file_path, 3600>>
                 /\ v.video_type = "url" => player'[u] = v.video_url
      ]_vars

\* C18: deactivating a course changes no subscription row, and a student with
\* an active in-window subscription to the course still opens the course page
\* and sees its playlist.
C18_InactiveCourseStillOpens ==
    [][/\ \A a \in Users, c \in Courses, ok \in BOOLEAN :
            toggleCourseStatus(a, c, ok) => subscriptions' = subscriptions
       /\ \A u \in Users, c \in Courses :
            (fetchCourseData(u, c, TRUE) /\ ~is_admin(u) /\ InWindow(u, c))
                => viewer'[u].open /\ viewer'[u].list # {}
      ]_vars

\* C19: in every reachable state a student whose profile is not approved
\* reads no video row, no playlist row and no video file.
C19_UnapprovedReadsNothing ==
    \A u \in Users : (~is_admin(u) /\ ~profiles[u].approved) =>
        /\ SelectVideos(u) = {}
        /\ SelectVideoFiles(u) = {}
        /\ \A c \in Courses : SelectCourseVideos(u, c) = {}

\* C20: a reject that goes through deletes the listed row and nothing else;
\* afterwards no row exists for its (user, course), so that a new request of
\* that student for that course is not refused for an existing row.
C20_RejectDeletesRow ==
    [][\A a \in Users : \A sub \in view[a] :
          rejectSubscription(a, sub, TRUE)
              => /\ subscriptions' = {s \in subscriptions : s.id # sub.id}
                 /\ \A r \in subscriptions' :
                       ~(r.user_id = sub.user_id /\ r.course_id = sub.course_id)
                 /\ ~UniqueViolation(PendingRow(sub.user_id, sub.course_id, NoProof))'
      ]_vars

\* C20 witness: after the first row of a pair was removed, a second receipt
\* request of the same student has created a fresh pending row for the pair.
C20_Witness ==
    /\ toast = "success"
    /\ \E r \in subscriptions, old \in receipts :
          /\ r.status = "pending" /\ r.id = 2 /\ r.payment_proof \in receipts
          /\ old # r.payment_proof /\ old[1] = r.user_id /\ old[2] = r.course_id
    /\ Cardinality(subscriptions) = 1

\* C21: for every stored row and every time, the CourseViewer check and the
\* badge 'active' of getSubscriptionStatus hold exactly when the policy's
\* condition status = active and start_date <= now <= end_date holds.
C21_UiAgreesWithPolicy ==
    \A s \in subscriptions :
        /\ ViewerCheck(s) <=> PolicyWindow(s)
        /\ (getSubscriptionStatus(s) = "active") <=> PolicyWindow(s)

\* C22: every failed backend call of the subscription flows ends the handler
\* with an error notification; none is followed by the success notification.
C22_FailuresSurface ==
    [][\A u \in Users :
          (\/ \E c \in Courses, t \in Texts :
                 createPassword(u, c, t, FALSE) \/ PwLookup(u, c, t, FALSE)
           \/ PwUpsert(u, FALSE)
           \/ PwMarkUsed(u, FALSE)
           \/ \E c \in Courses : RcUpload(u, c, FALSE)
           \/ RcUpsert(u, FALSE)
           \/ \E sub \in view[u] :
                 \/ ApproveUpdate(u, sub, FALSE)
                 \/ rejectSubscription(u, sub, FALSE)
                 \/ deleteSubscription(u, sub, FALSE)
                 \/ \E m \in RenewalMonths : renewSubscription(u, sub, m, FALSE)
           \/ ApproveRemove(u, FALSE)
           \/ ApproveClear(u, FALSE))
          => toast' \in {"error", "invalid"}]_vars

C24_SameFinalShape ==
    [][\A a \in Users :
          ApproveClear(a, TRUE) /\ (\A b \in Users \ {a} : pc[b] = "idle")
          => LET rows == {s \in subscriptions' : s.id = loc[a].sub.id}
             IN  /\ Cardinality(rows) = 1
                 /\ \A s \in rows :
                       /\ s.status = "active"
                       /\ s.payment_proof = NoProof
                       /\ s.start_date = now
                       /\ s.end_date =
                            AddMonths(now, courses[s.course_id].duration_months)
                 /\ loc[a].sub.payment_proof \notin receipts']_vars

\* both approvals are in flight on the same row, one already past its removal
C24_Witness ==
    /\ pc["u1"] = "ap_clear" /\ pc["u2"] \in {"ap_remove", "ap_clear"}
    /\ loc["u1"].sub.id = loc["u2"].sub.id
    /\ loc["u1"].sub.payment_proof \notin receipts

\* C25: VideoPlayer.fetchVideo gives a student a playable URL for a video only
\* while the student holds an active, in-window subscription to a course whose
\* playlist contains that video.
C25_UrlOnlyWithSubscription ==
    [][\A u \in Users, vid \in 1..MaxVideos :
          /\ ~is_admin(u)
          /\ fetchVideo(u, vid, TRUE)
          /\ player'[u] # NoUrl
          => \E s \in subscriptions :
                /\ s.user_id = u /\ PolicyWindow(s)
                /\ \E cv \in course_videos :
                      cv.course_id = s.course_id /\ cv.video_id = vid]_vars

\* C26: a profile starts as role student, approved false, and its role and
\* approved flag change only by an admin's approveUser or rejectUser; nothing a
\* student may write changes the student's own role or approved flag.
C26_OnlyAdminChangesProfile ==
    [][\A u \in Users :
          ~is_admin(u) /\ profiles'[u] # profiles[u]
          => \E a \in Users :
                /\ is_admin(a)
                /\ approveUser(a, u, TRUE) \/ rejectUser(a, u, TRUE)]_vars

\* C27: every video of type file with status ready has a file_path that names
\* an object stored in the videos bucket.
C27_ReadyFileHasObject ==
    \A v \in videos :
        v.video_type = "file" /\ v.status = "ready" => v.file_path \in video_files

\* C28: a renewal of m months applied to a subscription whose stored end_date is
\* in the future advances that stored end_date by m months, so that two
\* renewals of the same row add up, whoever applies them.
C28_RenewalsAccumulate ==
    [][\A a \in Users, m \in RenewalMonths : \A sub \in view[a] :
          renewSubscription(a, sub, m, TRUE)
          => \A s \in subscriptions :
                s.id = sub.id /\ SqlLt(now, s.end_date)
                => \E r \in subscriptions' :
                      r.id = s.id /\ r.end_date = AddMonths(s.end_date, m)]_vars

\* C29: approve acts only on a row that is pending when its status write is
\* applied: a row that has meanwhile become active keeps its dates, and when
\* the row has meanwhile been deleted the handler stops there with an error, so
\* that it neither removes the receipt object nor reports success.
C29_ApproveOnlyPending ==
    [][\A a \in Users : \A sub \in view[a] :
          ApproveUpdate(a, sub, TRUE)
          => /\ \A s \in subscriptions :
                   s.id = sub.id /\ s.status # "pending" => s \in subscriptions'
             /\ (~ \E s \in subscriptions : s.id = sub.id)
                => pc'[a] = "idle" /\ toast' = "error"]_vars

\* C30: a user's own subscribe actions never cost that user access: while the
\* user holds an active, in-window subscription for a course, no step of a
\* receipt request or a password request of that user leaves the pair with a
\* pending row or with an end_date earlier than before.
C30_SubscribeKeepsAccess ==
    [][\A s \in subscriptions :
          LET u == s.user_id
              rows == {r \in subscriptions' : r.user_id = u /\ r.course_id = s.course_id}
          IN  /\ PolicyWindow(s)
              /\ \/ rows = {}
                 \/ \E r \in rows : ~(r.status = "active" /\ SqlLe(s.end_date, r.end_date))
              => ~ \/ \E c \in Courses, ok \in BOOLEAN : RcUpload(u, c, ok)
                   \/ \E ok \in BOOLEAN : RcUpsert(u, ok)
                   \/ \E c \in Courses, t \in Texts, ok \in BOOLEAN :
                         PwLookup(u, c, t, ok)
                   \/ \E ok \in BOOLEAN : PwUpsert(u, ok)
                   \/ \E ok \in BOOLEAN : PwMarkUsed(u, ok)]_vars

\* a student who holds an active, in-window subscription for the course has
\* uploaded a new receipt for it and is about to upsert the request
C30_Witness ==
    /\ pc["u2"] = "rc_upsert"
    /\ \E s \in subscriptions :
          s.user_id = "u2" /\ s.course_id = loc["u2"].course /\ PolicyWindow(s)

====
